---- MODULE Spec2Model ----
(***************************************************************************)
(* A model of OPi.GPIO (src/GPIO.py) and its pin translator                *)
(* (src/pin_mappings.py).                                                  *)
(*                                                                         *)
(* The module-level state of GPIO.py (_mode, _gpio_warnings, _exports)     *)
(* and one PWM object are the state.  Every public function is one         *)
(* action that runs the whole handler; the calls a handler makes into      *)
(* OPi.sysfs and OPi.event are appended, in order, to a trace that is      *)
(* part of the state, so that the order and the number of the calls can    *)
(* be stated.  OPi.sysfs, OPi.event and OPi.constants are not among the    *)
(* source files: they are modelled from the design document (section 4.2,  *)
(* section 6) as a plain store that applies what is written to it.         *)
(***************************************************************************)
EXTENDS Integers, Sequences, FiniteSets, TLC

VARIABLES
    _mode,            \* GPIO._mode: "None" or the active numbering scheme
    _gpio_warnings,   \* GPIO._gpio_warnings
    _exports,         \* GPIO._exports: dict in insertion order, <<[ch, dir]>>
    _pin_map_custom,  \* pin_mappings._pin_map[CUSTOM]
    kexported,        \* sysfs: kernel pins currently exported
    watchers,         \* event: kernel pin -> Edge Watcher
    call,             \* the last GPIO call: function, arguments, outcome
    trace,            \* the sysfs/event/translator calls the last call made
    pwm,              \* the application's PWM object (self.*), or none
    kpwm,             \* sysfs: the PWM chip/pin's kernel state
    pcall,            \* the last PWM call
    ptrace            \* the sysfs PWM calls the last PWM call made

gvars == <<_mode, _gpio_warnings, _exports, _pin_map_custom, kexported,
           watchers, call, trace>>
pvars == <<pwm, kpwm, pcall, ptrace>>
vars == <<_mode, _gpio_warnings, _exports, _pin_map_custom, kexported,
          watchers, call, trace, pwm, kpwm, pcall, ptrace>>

(***************************************************************************)
(* Bounds of the model.                                                    *)
(***************************************************************************)
NumChannels == 2      \* board channels the application uses
MaxFaultAt == 4       \* an I/O fault may hit any of the first sysfs calls
MaxCallbacks == 1     \* callbacks appended to one Edge Watcher
NumFreqs == 2         \* PWM frequencies 1000 Hz .. NumFreqs * 1000 Hz
MaxRegistered == 2    \* callbacks registered in all, where several are followed

(***************************************************************************)
(* OPi.constants                                                           *)
(***************************************************************************)
DirIN == "in"      \* constants.IN
DirOUT == "out"    \* constants.OUT
BOARD == "BOARD"
BCM == "BCM"
SUNXI == "SUNXI"
CUSTOM == "CUSTOM"
NoMode == "None"
RISING == "rising"
FALLING == "falling"
BOTH == "both"
Triggers == {RISING, FALLING, BOTH}

\* errno values of OSError
EBUSY == 16
EIO == 5
EINVAL == 22

(***************************************************************************)
(* pin_mappings._pin_map[BOARD]                                            *)
(***************************************************************************)
BoardMap ==
    (3 :> 47) @@ (5 :> 46) @@ (7 :> 54) @@ (8 :> 131) @@ (10 :> 132) @@
    (12 :> 29) @@ (11 :> 138) @@ (13 :> 139) @@ (15 :> 28) @@ (16 :> 59) @@
    (18 :> 58) @@ (19 :> 49) @@ (21 :> 48) @@ (22 :> 92) @@ (24 :> 52) @@
    (23 :> 50) @@ (26 :> 35)

BoardOrder == <<3, 5, 7, 8, 10, 12, 11, 13, 15, 16, 18, 19, 21, 22, 24, 23, 26>>

\* The channels the application passes: board channels and one that no
\* scheme maps.
UnmappedChannels == {0}
UsedChannels == {BoardOrder[i] : i \in 1..NumChannels}
Channels == UsedChannels \cup UnmappedChannels
Pins == {BoardMap[c] : c \in UsedChannels}

\* A user-supplied mapping handed to setmode.
SampleCustomMap == [c \in UsedChannels |-> BoardMap[c] + 100]
EmptyMap == [c \in {} |-> 0]

\* Channel arguments: one channel (a sequence of one), or a list of the
\* first board channels.
ChannelLists == {SubSeq(BoardOrder, 1, n) : n \in 2..NumChannels}
ChannelArgs == {<<c>> : c \in Channels} \cup ChannelLists

(***************************************************************************)
(* I/O faults: the at-th sysfs call of a handler raises OSError(errno);    *)
(* at = 0 is a run without a fault.  EBUSY on an export stands for         *)
(* another process that holds the pin exported.                            *)
(***************************************************************************)
NoFault == [at |-> 0, errno |-> 0]
Faults == {NoFault} \cup [at : 1..MaxFaultAt, errno : {EBUSY, EIO}]

(***************************************************************************)
(* The running handler's view of the state: the module globals, the        *)
(* kernel, the calls made so far and the exception in flight ("ok" when    *)
(* none).  Handlers are operators from such a record to the next one.      *)
(***************************************************************************)
Running ==
    [mode |-> _mode, warnings |-> _gpio_warnings, exports |-> _exports,
     custom |-> _pin_map_custom, kex |-> kexported, watchers |-> watchers,
     trace |-> <<>>, n |-> 0, err |-> "ok", errno |-> 0,
     pin |-> 0, ret |-> "None"]

Raise(S, e) == [S EXCEPT !.err = e]
Ok(S) == S.err = "ok"

\* _exports as a dict
HasKey(exports, ch) == \E i \in 1..Len(exports) : exports[i].ch = ch
Lookup(exports, ch) ==
    (CHOOSE i \in 1..Len(exports) : exports[i].ch = ch)
Keys(exports) == [i \in 1..Len(exports) |-> exports[i].ch]
DelKey(exports, ch) == SelectSeq(exports, LAMBDA e : e.ch # ch)
DirOf(exports, ch) == exports[Lookup(exports, ch)].dir

\* One call into the translator, sysfs or event: what was called, on which
\* pin (channel, for the translator), with what, and the errno it raised.
Entry(op, pin, arg, errno) == [op |-> op, pin |-> pin, arg |-> arg, errno |-> errno]
Log(S, op, pin, arg, errno) == [S EXCEPT !.trace = Append(@, Entry(op, pin, arg, errno))]

(***************************************************************************)
(* pin_mappings.get_gpio_pin                                               *)
(***************************************************************************)
PinMap(S, mode) ==
    IF mode = BOARD THEN BoardMap ELSE IF mode = CUSTOM THEN S.custom ELSE EmptyMap

\* mutant: every scheme with a map is translated, the custom one included
get_gpio_pin_mutant_any_scheme(S, channel) ==
    LET T == Log(S, "get_gpio_pin", channel, "", 0)
    IN  IF channel \notin DOMAIN PinMap(S, S.mode) THEN Raise(T, "KeyError")
        ELSE [T EXCEPT !.pin = PinMap(S, S.mode)[channel]]

get_gpio_pin(S, channel) ==
    LET T == Log(S, "get_gpio_pin", channel, "", 0)
    IN  IF S.mode # BOARD THEN Raise(T, "AssertionError")
        ELSE IF channel \notin DOMAIN PinMap(S, S.mode) THEN Raise(T, "KeyError")
        ELSE [T EXCEPT !.pin = PinMap(S, S.mode)[channel]]

(***************************************************************************)
(* OPi.sysfs (GPIO part): export, unexport, direction, output, input.      *)
(***************************************************************************)
Injected(S, fault) == IF fault.at = S.n + 1 THEN fault.errno ELSE 0

\* the sysfs call is logged with its outcome; a non-zero errno is raised
SysCall(S, op, pin, arg, errno) ==
    LET T == Log([S EXCEPT !.n = @ + 1], op, pin, arg, errno)
    IN  IF errno = 0 THEN T
        ELSE [T EXCEPT !.err = IF errno = EBUSY THEN "ResourceBusy" ELSE "IOError",
                       !.errno = errno]

sysfs_export(S, pin, fault) ==
    LET inj == Injected(S, fault)
    IN  IF inj = EIO THEN SysCall(S, "sysfs.export", pin, "", EIO)
        ELSE IF pin \in S.kex \/ inj = EBUSY
             THEN SysCall([S EXCEPT !.kex = @ \cup {pin}], "sysfs.export", pin, "", EBUSY)
        ELSE SysCall([S EXCEPT !.kex = @ \cup {pin}], "sysfs.export", pin, "", 0)

sysfs_unexport(S, pin, fault) ==
    LET inj == Injected(S, fault)
    IN  IF inj # 0 THEN SysCall(S, "sysfs.unexport", pin, "", inj)
        ELSE IF pin \notin S.kex THEN SysCall(S, "sysfs.unexport", pin, "", EINVAL)
        ELSE SysCall([S EXCEPT !.kex = @ \ {pin}], "sysfs.unexport", pin, "", 0)

\* direction, output and input: a read or write of a file of an exported pin
sysfs_file(S, op, pin, arg, fault) ==
    LET inj == Injected(S, fault)
    IN  IF inj # 0 THEN SysCall(S, op, pin, arg, inj)
        ELSE IF pin \notin S.kex THEN SysCall(S, op, pin, arg, EINVAL)
        ELSE SysCall(S, op, pin, arg, 0)

(***************************************************************************)
(* GPIO._check_configured                                                  *)
(***************************************************************************)
check_configured_mutant_any_direction(S, channel, direction) ==
    IF ~HasKey(S.exports, channel) THEN Raise(S, "NotConfigured") ELSE S

check_configured(S, channel, direction) ==
    IF ~HasKey(S.exports, channel) THEN Raise(S, "NotConfigured")
    ELSE IF direction # "None" /\ direction # DirOf(S.exports, channel)
         THEN Raise(S, "WrongDirection")
    ELSE S

(***************************************************************************)
(* OPi.event: the Edge-Event Subsystem, keyed by kernel pin.  An Edge      *)
(* Watcher is [trigger, callbacks, detected].                              *)
(***************************************************************************)
HasWatcher(S, pin) == pin \in DOMAIN S.watchers

DropWatcher(w, pin) == [p \in (DOMAIN w) \ {pin} |-> w[p]]

event_cleanup(S, pin) ==
    [Log(S, "event.cleanup", pin, IF HasWatcher(S, pin) THEN "removed" ELSE "", 0)
        EXCEPT !.watchers = DropWatcher(@, pin)]

event_add_edge_detect(S, pin, trigger, wrapped) ==
    LET T == Log(S, "event.add_edge_detect", pin, trigger, 0)
    IN  IF HasWatcher(S, pin) THEN Raise(T, "WatcherExists")
        ELSE [T EXCEPT !.watchers = (pin :> [trigger |-> trigger,
                                             callbacks |-> wrapped,
                                             detected |-> FALSE]) @@ @]

event_remove_edge_detect(S, pin) ==
    LET T == Log(S, "event.remove_edge_detect", pin, "", 0)
    IN  IF ~HasWatcher(S, pin) THEN Raise(T, "NoWatcher")
        ELSE [T EXCEPT !.watchers = DropWatcher(@, pin)]

event_add_edge_callback(S, pin, wrapped) ==
    LET T == Log(S, "event.add_edge_callback", pin, "", 0)
    IN  IF ~HasWatcher(S, pin) THEN Raise(T, "NoWatcher")
        ELSE [T EXCEPT !.watchers[pin].callbacks = @ \o wrapped]

event_edge_detected(S, pin) ==
    LET T == Log(S, "event.edge_detected", pin, "", 0)
    IN  IF ~HasWatcher(S, pin) THEN Raise(T, "NoWatcher")
        ELSE [T EXCEPT !.watchers[pin].detected = FALSE,
                       !.ret = IF S.watchers[pin].detected THEN "True" ELSE "False"]

\* edge: whether a matching transition arrives before the timeout
event_blocking_wait_for_edge(S, pin, trigger, edge) ==
    LET T == Log(S, "event.blocking_wait_for_edge", pin, trigger, 0)
    IN  IF HasWatcher(S, pin) THEN Raise(T, "WatcherExists")
        ELSE [T EXCEPT !.ret = IF edge THEN "edge" ELSE "None"]

Matches(trigger, kind) == trigger = BOTH \/ trigger = kind

(***************************************************************************)
(* GPIO.__wrap: a callback bound to the channel it was registered for.     *)
(***************************************************************************)
wrap(callback, channel) ==
    IF callback = "None" THEN <<>> ELSE <<[cb |-> callback, channel |-> channel]>>

(***************************************************************************)
(* GPIO.setup, one channel (the else branch) and the whole function.       *)
(***************************************************************************)
\* mutant: a retried export that is busy again is retried once more
export_with_retry_mutant_again(S, pin, channel, fault) ==
    LET E == sysfs_export(S, pin, fault)
        Retry(X) == sysfs_export([X EXCEPT !.err = "ok", !.errno = 0], pin, fault)
    IN  IF Ok(E) THEN E
        ELSE IF E.errno = EBUSY
             THEN LET U == sysfs_unexport([E EXCEPT !.err = "ok", !.errno = 0], pin, fault)
                  IN  IF ~Ok(U) THEN U
                      ELSE LET R == sysfs_export(U, pin, fault)
                           IN  IF ~Ok(R) /\ R.errno = EBUSY THEN Retry(R) ELSE R
        ELSE E

export_with_retry(S, pin, channel, fault) ==
    LET E == sysfs_export(S, pin, fault)
    IN  IF Ok(E) THEN E
        ELSE IF E.errno = EBUSY
             THEN LET U == sysfs_unexport([E EXCEPT !.err = "ok", !.errno = 0], pin, fault)
                  IN  IF Ok(U) THEN sysfs_export(U, pin, fault) ELSE U
        ELSE E

\* mutant: a configured channel is not refused; its record is overwritten
setup_channel_mutant_overwrite(S, channel, direction, initial, fault) ==
    LET P == get_gpio_pin(S, channel)
    IN  IF ~Ok(P) THEN P
        ELSE LET E == export_with_retry(P, P.pin, channel, fault)
             IN  IF ~Ok(E) THEN E
                 ELSE LET D == sysfs_file(E, "sysfs.direction", P.pin, direction, fault)
                      IN  IF ~Ok(D) THEN D
                          ELSE [D EXCEPT !.exports =
                                   Append(DelKey(@, channel),
                                          [ch |-> channel, dir |-> direction])]

setup_channel(S, channel, direction, initial, fault) ==
    IF HasKey(S.exports, channel) THEN Raise(S, "AlreadyConfigured")
    ELSE LET P == get_gpio_pin(S, channel)
         IN  IF ~Ok(P) THEN P
             ELSE LET E == export_with_retry(P, P.pin, channel, fault)
                  IN  IF ~Ok(E) THEN E
                      ELSE LET D == sysfs_file(E, "sysfs.direction", P.pin, direction, fault)
                           IN  IF ~Ok(D) THEN D
                               ELSE LET R == [D EXCEPT !.exports =
                                                Append(@, [ch |-> channel, dir |-> direction])]
                                    IN  IF direction = DirOUT /\ initial # "None"
                                        THEN sysfs_file(R, "sysfs.output", P.pin, initial, fault)
                                        ELSE R

RECURSIVE setup_list(_, _, _, _, _)
setup_list(S, channels, direction, initial, fault) ==
    IF channels = <<>> \/ ~Ok(S) THEN S
    ELSE setup_list(setup_channel(S, Head(channels), direction, initial, fault),
                    Tail(channels), direction, initial, fault)

\* mutant: the scheme is not checked before the channels are set up
setup_mutant_no_mode_check(S, channels, direction, initial, fault) ==
    setup_list(S, channels, direction, initial, fault)

setup(S, channels, direction, initial, fault) ==
    IF S.mode = NoMode THEN Raise(S, "NotInitialized")
    ELSE setup_list(S, channels, direction, initial, fault)

(***************************************************************************)
(* GPIO.cleanup, one channel (the else branch), a list, and no argument.   *)
(***************************************************************************)
\* mutant: the pin is unexported with its Edge Watcher left in place
cleanup_channel_mutant_keep_watcher(S, channel, fault) ==
    LET C == check_configured(S, channel, "None")
    IN  IF ~Ok(C) THEN C
        ELSE LET P == get_gpio_pin(C, channel)
             IN  IF ~Ok(P) THEN P
                 ELSE LET U == sysfs_unexport(P, P.pin, fault)
                      IN  IF ~Ok(U) THEN U
                          ELSE [U EXCEPT !.exports = DelKey(@, channel)]

cleanup_channel(S, channel, fault) ==
    LET C == check_configured(S, channel, "None")
    IN  IF ~Ok(C) THEN C
        ELSE LET P == get_gpio_pin(C, channel)
             IN  IF ~Ok(P) THEN P
                 ELSE LET U == sysfs_unexport(event_cleanup(P, P.pin), P.pin, fault)
                      IN  IF ~Ok(U) THEN U
                          ELSE [U EXCEPT !.exports = DelKey(@, channel)]

RECURSIVE cleanup_list(_, _, _)
cleanup_list(S, channels, fault) ==
    IF channels = <<>> \/ ~Ok(S) THEN S
    ELSE cleanup_list(cleanup_channel(S, Head(channels), fault), Tail(channels), fault)

\* mutant: the numbering scheme survives a full teardown
cleanup_all_mutant_keep_mode(S, fault) ==
    LET L == cleanup_list(S, Keys(S.exports), fault)
    IN  IF ~Ok(L) THEN L
        ELSE [L EXCEPT !.warnings = TRUE]

cleanup_all(S, fault) ==
    LET L == cleanup_list(S, Keys(S.exports), fault)
    IN  IF ~Ok(L) THEN L
        ELSE [L EXCEPT !.warnings = TRUE, !.mode = NoMode]

(***************************************************************************)
(* GPIO.setmode, GPIO.setwarnings, pin_mappings.set_custom_pin_mappings    *)
(***************************************************************************)
ModeArgs == {BOARD, BCM, SUNXI, CUSTOM, NoMode}

set_custom_pin_mappings(S, mappings) == [S EXCEPT !.custom = mappings]

\* mutant: the mode is assigned without the assertion
setmode_mutant_unasserted(S, m, has_getitem) ==
    LET C == IF has_getitem THEN set_custom_pin_mappings(S, m) ELSE S
    IN  [C EXCEPT !.mode = IF has_getitem THEN CUSTOM ELSE m]

\* has_getitem: the argument is a mapping; it is installed and mode is CUSTOM
setmode(S, m, has_getitem) ==
    LET C == IF has_getitem THEN set_custom_pin_mappings(S, m) ELSE S
        mode == IF has_getitem THEN CUSTOM ELSE m
    IN  IF mode \notin {BCM, BOARD, SUNXI, CUSTOM} THEN Raise(C, "AssertionError")
        ELSE [C EXCEPT !.mode = mode]

setwarnings(S, enabled) == [S EXCEPT !.warnings = enabled]

(***************************************************************************)
(* GPIO.input, GPIO.output                                                 *)
(***************************************************************************)
Levels == {"0", "1"}

\* setup's direction and initial value; initial is read only for an output
SetupArgs ==
    {[direction |-> DirIN, initial |-> "None"],
     [direction |-> DirOUT, initial |-> "None"],
     [direction |-> DirOUT, initial |-> "1"]}

\* output's state argument: one level, or a list with a level per channel
Single(v) == [list |-> FALSE, v |-> <<v>>]
PerChannel(vs) == [list |-> TRUE, v |-> vs]
StateArgs ==
    {Single(v) : v \in Levels} \cup {PerChannel(vs) : vs \in [1..NumChannels -> Levels]}

input(S, channel, level, fault) ==
    LET C == check_configured(S, channel, "None")
    IN  IF ~Ok(C) THEN C
        ELSE LET P == get_gpio_pin(C, channel)
             IN  IF ~Ok(P) THEN P
                 ELSE LET R == sysfs_file(P, "sysfs.input", P.pin, "", fault)
                      IN  IF Ok(R) THEN [R EXCEPT !.ret = level] ELSE R

\* mutant: the value is written whatever the channel is recorded as
output_channel_mutant_unguarded(S, channel, state, fault) ==
    LET C == check_configured(S, channel, "None")
    IN  IF ~Ok(C) THEN C
        ELSE LET P == get_gpio_pin(C, channel)
             IN  IF ~Ok(P) THEN P
                 ELSE sysfs_file(P, "sysfs.output", P.pin, state, fault)

output_channel(S, channel, state, fault) ==
    LET C == check_configured(S, channel, DirOUT)
    IN  IF ~Ok(C) THEN C
        ELSE LET P == get_gpio_pin(C, channel)
             IN  IF ~Ok(P) THEN P
                 ELSE sysfs_file(P, "sysfs.output", P.pin, state, fault)

RECURSIVE output(_, _, _, _)
output(S, channels, state, fault) ==
    IF channels = <<>> \/ ~Ok(S) THEN S
    ELSE output(output_channel(S, Head(channels), state, fault),
                Tail(channels), state, fault)

(***************************************************************************)
(* GPIO.wait_for_edge, add_event_detect, remove_event_detect,              *)
(* add_event_callback, event_detected                                      *)
(***************************************************************************)
CallbackArgs == {"f", "None"}

wait_for_edge(S, channel, trigger, edge) ==
    LET C == check_configured(S, channel, DirIN)
    IN  IF ~Ok(C) THEN C
        ELSE LET P == get_gpio_pin(C, channel)
             IN  IF ~Ok(P) THEN P
                 ELSE LET W == event_blocking_wait_for_edge(P, P.pin, trigger, edge)
                      IN  IF Ok(W) /\ W.ret # "None" THEN [W EXCEPT !.ret = "channel"]
                          ELSE W

add_event_detect(S, channel, trigger, callback) ==
    LET C == check_configured(S, channel, DirIN)
    IN  IF ~Ok(C) THEN C
        ELSE LET P == get_gpio_pin(C, channel)
             IN  IF ~Ok(P) THEN P
                 ELSE event_add_edge_detect(P, P.pin, trigger, wrap(callback, channel))

remove_event_detect(S, channel) ==
    LET C == check_configured(S, channel, DirIN)
    IN  IF ~Ok(C) THEN C
        ELSE LET P == get_gpio_pin(C, channel)
             IN  IF ~Ok(P) THEN P ELSE event_remove_edge_detect(P, P.pin)

\* mutant: the callback is bound to the kernel pin instead of the channel
add_event_callback_mutant_pin(S, channel, callback) ==
    LET C == check_configured(S, channel, DirIN)
    IN  IF ~Ok(C) THEN C
        ELSE LET P == get_gpio_pin(C, channel)
             IN  IF ~Ok(P) THEN P
                 ELSE event_add_edge_callback(P, P.pin, wrap(callback, P.pin))

add_event_callback(S, channel, callback) ==
    LET C == check_configured(S, channel, DirIN)
    IN  IF ~Ok(C) THEN C
        ELSE LET P == get_gpio_pin(C, channel)
             IN  IF ~Ok(P) THEN P
                 ELSE event_add_edge_callback(P, P.pin, wrap(callback, channel))

event_detected(S, channel) ==
    LET C == check_configured(S, channel, DirIN)
    IN  IF ~Ok(C) THEN C
        ELSE LET P == get_gpio_pin(C, channel)
             IN  IF ~Ok(P) THEN P ELSE event_edge_detected(P, P.pin)

(***************************************************************************)
(* The GPIO actions: one per public function.                              *)
(***************************************************************************)
Commit(S, op, channels) ==
    /\ _mode' = S.mode
    /\ _gpio_warnings' = S.warnings
    /\ _exports' = S.exports
    /\ _pin_map_custom' = S.custom
    /\ kexported' = S.kex
    /\ watchers' = S.watchers
    /\ trace' = S.trace
    /\ call' = [op |-> op, channels |-> channels, result |-> S.err, ret |-> S.ret]
    /\ UNCHANGED pvars

Setmode ==
    \E m \in ModeArgs : Commit(setmode(Running, m, FALSE), "setmode", <<>>)

SetmodeMapping ==
    Commit(setmode(Running, SampleCustomMap, TRUE), "setmode", <<>>)

Setwarnings ==
    \E b \in BOOLEAN :
        Commit(setwarnings(Running, b), "setwarnings", <<>>)

Setup ==
    \E chs \in ChannelArgs, a \in SetupArgs, fault \in Faults :
        Commit(setup(Running, chs, a.direction, a.initial, fault), "setup", chs)

Cleanup ==
    \E chs \in ChannelArgs, fault \in Faults :
        Commit(cleanup_list(Running, chs, fault), "cleanup", chs)

CleanupAll ==
    \E fault \in Faults :
        Commit(cleanup_all(Running, fault), "cleanup_all", <<>>)

Input ==
    \E ch \in Channels, level \in Levels, fault \in Faults :
        Commit(input(Running, ch, level, fault), "input", <<ch>>)

\* the call record of output also keeps the state it was given
Output ==
    \E chs \in ChannelArgs, state \in StateArgs, fault \in Faults :
        LET S == output(Running, chs, state, fault)
        IN  /\ _mode' = S.mode
            /\ _gpio_warnings' = S.warnings
            /\ _exports' = S.exports
            /\ _pin_map_custom' = S.custom
            /\ kexported' = S.kex
            /\ watchers' = S.watchers
            /\ trace' = S.trace
            /\ call' = [op |-> "output", channels |-> chs, result |-> S.err,
                        ret |-> S.ret, state |-> state]
            /\ UNCHANGED pvars

WaitForEdge ==
    \E ch \in Channels, t \in Triggers, edge \in BOOLEAN :
        Commit(wait_for_edge(Running, ch, t, edge), "wait_for_edge", <<ch>>)

AddEventDetect ==
    \E ch \in Channels, t \in Triggers, cb \in CallbackArgs :
        Commit(add_event_detect(Running, ch, t, cb), "add_event_detect", <<ch>>)

RemoveEventDetect ==
    \E ch \in Channels :
        Commit(remove_event_detect(Running, ch), "remove_event_detect", <<ch>>)

AddEventCallback ==
    \E ch \in Channels, cb \in CallbackArgs \ {"None"} :
        /\ \A p \in DOMAIN watchers : Len(watchers[p].callbacks) < MaxCallbacks
        /\ Commit(add_event_callback(Running, ch, cb), "add_event_callback", <<ch>>)

\* the callbacks registered so far, over all Edge Watchers
RECURSIVE Registered(_)
Registered(w) ==
    IF DOMAIN w = {} THEN 0
    ELSE LET p == CHOOSE q \in DOMAIN w : TRUE
         IN  Len(w[p].callbacks) + Registered(DropWatcher(w, p))

\* add_event_callback again, with two callbacks to tell apart and room for a
\* second one on the same Edge Watcher
MoreCallbacks == {"f", "g"}

AddEventCallbackMore ==
    \E ch \in Channels, cb \in MoreCallbacks :
        /\ Registered(watchers) < MaxRegistered
        /\ Commit(add_event_callback(Running, ch, cb), "add_event_callback", <<ch>>)

EventDetected ==
    \E ch \in Channels :
        Commit(event_detected(Running, ch), "event_detected", <<ch>>)

(***************************************************************************)
(* The background multiplexer of OPi.event: a transition on a watched pin  *)
(* that matches the armed trigger sets the detected flag and runs the      *)
(* pin's callbacks in registration order.                                  *)
(***************************************************************************)
Dispatched(w) ==
    [i \in 1..Len(w.callbacks) |->
        Entry("callback", w.callbacks[i].channel, w.callbacks[i].cb, 0)]

Edge ==
    \E pin \in DOMAIN watchers, kind \in {RISING, FALLING} :
        /\ Matches(watchers[pin].trigger, kind)
        /\ watchers' = [watchers EXCEPT ![pin].detected = TRUE]
        /\ trace' = Dispatched(watchers[pin])
        /\ call' = [op |-> "edge", channels |-> <<>>, result |-> "ok", ret |-> kind]
        /\ UNCHANGED <<_mode, _gpio_warnings, _exports, _pin_map_custom, kexported>>
        /\ UNCHANGED pvars

NoCall == [op |-> "import", channels |-> <<>>, result |-> "ok", ret |-> "None"]

GInit ==
    /\ _mode = NoMode
    /\ _gpio_warnings = TRUE
    /\ _exports = <<>>
    /\ _pin_map_custom = EmptyMap
    /\ kexported = {}
    /\ watchers = EmptyMap
    /\ call = NoCall
    /\ trace = <<>>

\* no PWM object has been constructed, and the chip/pin pair is not exported
NoPwm == [constructed |-> FALSE, frequency |-> 0, duty_cycle_percent |-> 0,
          invert_polarity |-> FALSE]
KUnexported ==
    [exported |-> FALSE, period |-> 0, duty |-> 0, enabled |-> FALSE, inverted |-> FALSE]

PInit ==
    /\ pwm = NoPwm
    /\ kpwm = KUnexported
    /\ pcall = [op |-> "import", arg |-> 0, result |-> "ok"]
    /\ ptrace = <<>>

Init == GInit /\ PInit

(***************************************************************************)
(* The Channel Registry and its lifecycle: scheme selection, configure,    *)
(* teardown, and the watchers a teardown has to remove.                    *)
(***************************************************************************)
Next ==
    \/ Setmode
    \/ Setwarnings
    \/ Setup
    \/ Cleanup
    \/ CleanupAll
    \/ AddEventDetect
    \/ RemoveEventDetect

Spec == Init /\ [][Next]_vars

(***************************************************************************)
(* The edge operations over the registry: configure and teardown, the five *)
(* edge functions, and transitions on the watched pins.                    *)
(***************************************************************************)
EdgeNext ==
    \/ Setmode
    \/ Setup
    \/ Cleanup
    \/ WaitForEdge
    \/ AddEventDetect
    \/ RemoveEventDetect
    \/ AddEventCallback
    \/ EventDetected
    \/ Edge

EdgeSpec == Init /\ [][EdgeNext]_vars

(***************************************************************************)
(* Callbacks: arming a watcher with or without a callback, adding          *)
(* callbacks to it, and the transitions that run them.                     *)
(***************************************************************************)
CallbackNext ==
    \/ Setmode
    \/ Setup
    \/ AddEventDetect
    \/ AddEventCallbackMore
    \/ RemoveEventDetect
    \/ Edge

CallbackSpec == Init /\ [][CallbackNext]_vars

(***************************************************************************)
(* Reading and writing the pins under every way of selecting the scheme:   *)
(* a built-in scheme or a mapping, configure, read, write and teardown.    *)
(***************************************************************************)
IoNext ==
    \/ Setmode
    \/ SetmodeMapping
    \/ Setup
    \/ Cleanup
    \/ CleanupAll
    \/ Input
    \/ Output

IoSpec == Init /\ [][IoNext]_vars

(***************************************************************************)
(* OPi.sysfs (PWM part), one chip/pin pair.  The kernel state is what was  *)
(* last written; a freshly exported pair has period 0, duty cycle 0,       *)
(* normal polarity and is disabled.  Every call but the export needs the   *)
(* pair to be exported.                                                    *)
(***************************************************************************)
KFresh == [KUnexported EXCEPT !.exported = TRUE]

\* int(round(num / den, 0)) for num >= 0, den > 0: Python rounds halves to even
RoundHalfEven(num, den) ==
    LET q == num \div den
        r == num % den
    IN  IF 2 * r < den THEN q
        ELSE IF 2 * r > den THEN q + 1
        ELSE IF q % 2 = 0 THEN q ELSE q + 1

\* sysfs.PWM_Frequency and change_frequency: (1 / frequency) * 1e9, rounded
PeriodOf(frequency) == RoundHalfEven(1000000000, frequency)
\* (percent / 100) * period, rounded
DutyOf(percent, period) ==
    IF percent >= 0 THEN RoundHalfEven(percent * period, 100)
    ELSE -RoundHalfEven((-percent) * period, 100)

PRunning ==
    [self |-> pwm, k |-> kpwm, trace |-> <<>>, n |-> 0, err |-> "ok", errno |-> 0]

\* an entry of ptrace: the call, its value, the errno raised, whether the
\* output was enabled when it was made, and the period and duty cycle after
PEntry(op, val, errno, en, k) ==
    [op |-> op, val |-> val, errno |-> errno, en |-> en,
     period |-> k.period, duty |-> k.duty]

PCall(S, op, val, errno, k) ==
    LET T == [S EXCEPT !.n = @ + 1, !.k = IF errno = 0 \/ op = "PWM_Export" THEN k ELSE @,
                       !.trace = Append(@, PEntry(op, val, errno, S.k.enabled,
                                                  IF errno = 0 THEN k ELSE S.k))]
    IN  IF errno = 0 THEN T
        ELSE [T EXCEPT !.err = IF errno = EBUSY THEN "ResourceBusy" ELSE "IOError",
                       !.errno = errno]

PWM_Export(S, fault) ==
    LET inj == Injected(S, fault)
    IN  IF inj = EIO THEN PCall(S, "PWM_Export", 0, EIO, S.k)
        ELSE IF S.k.exported THEN PCall(S, "PWM_Export", 0, EBUSY, S.k)
        ELSE IF inj = EBUSY THEN PCall(S, "PWM_Export", 0, EBUSY, KFresh)
        ELSE PCall(S, "PWM_Export", 0, 0, KFresh)

\* a write to a file of the exported pair that leaves the kernel state k
PWM_Write(S, op, val, k, fault) ==
    LET inj == Injected(S, fault)
    IN  IF inj # 0 THEN PCall(S, op, val, inj, S.k)
        ELSE IF ~S.k.exported THEN PCall(S, op, val, EINVAL, S.k)
        ELSE PCall(S, op, val, 0, k)

PWM_Unexport(S, fault) == PWM_Write(S, "PWM_Unexport", 0, KUnexported, fault)
PWM_Polarity(S, invert, fault) ==
    PWM_Write(S, "PWM_Polarity", IF invert THEN 1 ELSE 0,
              [S.k EXCEPT !.inverted = invert], fault)
PWM_Enable(S, fault) == PWM_Write(S, "PWM_Enable", 0, [S.k EXCEPT !.enabled = TRUE], fault)
PWM_Disable(S, fault) == PWM_Write(S, "PWM_Disable", 0, [S.k EXCEPT !.enabled = FALSE], fault)
PWM_Frequency(S, frequency, fault) ==
    PWM_Write(S, "PWM_Frequency", frequency,
              [S.k EXCEPT !.period = PeriodOf(frequency)], fault)
PWM_Period(S, period, fault) ==
    PWM_Write(S, "PWM_Period", period, [S.k EXCEPT !.period = period], fault)
PWM_Duty_Cycle(S, duty, fault) ==
    PWM_Write(S, "PWM_Duty_Cycle", duty, [S.k EXCEPT !.duty = duty], fault)
PWM_Duty_Cycle_Percent(S, percent, fault) ==
    PWM_Write(S, "PWM_Duty_Cycle_Percent", percent,
              [S.k EXCEPT !.duty = DutyOf(percent, S.k.period)], fault)

(***************************************************************************)
(* class PWM                                                               *)
(***************************************************************************)
\* __init__: the four calls of the try block, then the except clause
pwm_init_try(S, frequency, invert_polarity, fault) ==
    LET E == PWM_Export(S, fault)
    IN  IF ~Ok(E) THEN E
        ELSE LET P == PWM_Polarity(E, invert_polarity, fault)
             IN  IF ~Ok(P) THEN P
                 ELSE LET N == PWM_Enable(P, fault)
                      IN  IF ~Ok(N) THEN N ELSE PWM_Frequency(N, frequency, fault)

pwm_init(S, frequency, duty_cycle_percent, invert_polarity, fault) ==
    LET O == [S EXCEPT !.self = [constructed |-> TRUE, frequency |-> frequency,
                                 duty_cycle_percent |-> duty_cycle_percent,
                                 invert_polarity |-> invert_polarity]]
        T == pwm_init_try(O, frequency, invert_polarity, fault)
    IN  IF Ok(T) THEN T
        ELSE IF T.errno = EBUSY
             THEN LET U == PWM_Unexport([T EXCEPT !.err = "ok", !.errno = 0], fault)
                  IN  IF Ok(U) THEN PWM_Export(U, fault) ELSE U
        ELSE T

start_pwm(S, fault) == PWM_Duty_Cycle_Percent(S, S.self.duty_cycle_percent, fault)

stop_pwm(S, fault) == PWM_Duty_Cycle_Percent(S, 0, fault)

\* mutant: the period is written first when it gets shorter
change_frequency_mutant_flipped(S, new_frequency, fault) ==
    LET pwm_period == PeriodOf(new_frequency)
        duty_cycle == DutyOf(S.self.duty_cycle_percent, pwm_period)
        old_pwm_period == PeriodOf(S.self.frequency)
        W == IF pwm_period < old_pwm_period
             THEN LET A == PWM_Period(S, pwm_period, fault)
                  IN  IF Ok(A) THEN PWM_Duty_Cycle(A, duty_cycle, fault) ELSE A
             ELSE LET A == PWM_Duty_Cycle(S, duty_cycle, fault)
                  IN  IF Ok(A) THEN PWM_Period(A, pwm_period, fault) ELSE A
    IN  IF Ok(W) THEN [W EXCEPT !.self.frequency = new_frequency] ELSE W

change_frequency(S, new_frequency, fault) ==
    LET pwm_period == PeriodOf(new_frequency)
        duty_cycle == DutyOf(S.self.duty_cycle_percent, pwm_period)
        old_pwm_period == PeriodOf(S.self.frequency)
        W == IF pwm_period > old_pwm_period
             THEN LET A == PWM_Period(S, pwm_period, fault)
                  IN  IF Ok(A) THEN PWM_Duty_Cycle(A, duty_cycle, fault) ELSE A
             ELSE LET A == PWM_Duty_Cycle(S, duty_cycle, fault)
                  IN  IF Ok(A) THEN PWM_Period(A, pwm_period, fault) ELSE A
    IN  IF Ok(W) THEN [W EXCEPT !.self.frequency = new_frequency] ELSE W

\* mutant: the percentage is stored and written without the range check
duty_cycle_mutant_unchecked(S, duty_cycle_percent, fault) ==
    PWM_Duty_Cycle_Percent([S EXCEPT !.self.duty_cycle_percent = duty_cycle_percent],
                           duty_cycle_percent, fault)

duty_cycle(S, duty_cycle_percent, fault) ==
    IF 0 <= duty_cycle_percent /\ duty_cycle_percent <= 100
    THEN PWM_Duty_Cycle_Percent([S EXCEPT !.self.duty_cycle_percent = duty_cycle_percent],
                                duty_cycle_percent, fault)
    ELSE Raise(S, "OutOfRange")

\* mutant: the polarity is flipped without disabling the output first
pwm_polarity_mutant_no_disable(S, fault) ==
    LET P == PWM_Polarity(S, ~S.self.invert_polarity, fault)
    IN  IF ~Ok(P) THEN P ELSE PWM_Enable(P, fault)

pwm_polarity(S, fault) ==
    LET D == PWM_Disable(S, fault)
    IN  IF ~Ok(D) THEN D
        ELSE LET P == PWM_Polarity(D, ~S.self.invert_polarity, fault)
             IN  IF ~Ok(P) THEN P ELSE PWM_Enable(P, fault)

pwm_close(S, fault) == PWM_Unexport(S, fault)

(***************************************************************************)
(* The PWM actions: the constructor and one per method.  A constructor     *)
(* that raises binds no object: the application keeps the one it had.      *)
(***************************************************************************)
Freqs == {1000 * i : i \in 1..NumFreqs}
\* duty-cycle percentages given to the constructor, and to duty_cycle
Percents == {0, 50, 100}
DutyCycleArgs == Percents \cup {-1, 101, 150}

PCommit(S, op, arg, self) ==
    /\ pwm' = self
    /\ kpwm' = S.k
    /\ ptrace' = S.trace
    /\ pcall' = [op |-> op, arg |-> arg, result |-> S.err]
    /\ UNCHANGED gvars

PwmInit ==
    \E f \in Freqs, pct \in Percents, inv \in BOOLEAN, fault \in Faults :
        LET S == pwm_init(PRunning, f, pct, inv, fault)
        IN  PCommit(S, "__init__", f, IF Ok(S) THEN S.self ELSE pwm)

PwmStart ==
    /\ pwm.constructed
    /\ \E fault \in Faults :
        LET S == start_pwm(PRunning, fault) IN PCommit(S, "start_pwm", 0, S.self)

PwmStop ==
    /\ pwm.constructed
    /\ \E fault \in Faults :
        LET S == stop_pwm(PRunning, fault) IN PCommit(S, "stop_pwm", 0, S.self)

PwmChangeFrequency ==
    /\ pwm.constructed
    /\ \E f \in Freqs, fault \in Faults :
        LET S == change_frequency(PRunning, f, fault)
        IN  PCommit(S, "change_frequency", f, S.self)

PwmDutyCycle ==
    /\ pwm.constructed
    /\ \E pct \in DutyCycleArgs, fault \in Faults :
        LET S == duty_cycle(PRunning, pct, fault)
        IN  PCommit(S, "duty_cycle", pct, S.self)

PwmPolarity ==
    /\ pwm.constructed
    /\ \E fault \in Faults :
        LET S == pwm_polarity(PRunning, fault) IN PCommit(S, "pwm_polarity", 0, S.self)

PwmClose ==
    /\ pwm.constructed
    /\ \E fault \in Faults :
        LET S == pwm_close(PRunning, fault) IN PCommit(S, "pwm_close", 0, S.self)

PwmNext ==
    \/ PwmInit
    \/ PwmStart
    \/ PwmStop
    \/ PwmChangeFrequency
    \/ PwmDutyCycle
    \/ PwmPolarity
    \/ PwmClose

PwmSpec == Init /\ [][PwmNext]_vars

(***************************************************************************)
(* Reading the last call.                                                  *)
(***************************************************************************)
SysfsCalls(t) == SelectSeq(t, LAMBDA e : e.op \in
    {"sysfs.export", "sysfs.unexport", "sysfs.direction", "sysfs.output", "sysfs.input"})
ExportCalls(t, pin) == SelectSeq(t, LAMBDA e : e.op = "sysfs.export" /\ e.pin = pin)
OneChannel(c) == Len(c.channels) = 1
BoardPin(ch) == BoardMap[ch]

(***************************************************************************)
(* C1.  With a scheme active, setup(C, d) on a channel that has an Export  *)
(* Record raises AlreadyConfigured, makes no sysfs call (no export) and    *)
(* leaves the registry as it was; a channel without a record (one never    *)
(* configured, or torn down) is not refused, and with the translation and  *)
(* the I/O succeeding it is recorded with the direction asked for.  So no  *)
(* step changes the direction recorded for a channel that keeps its        *)
(* record: the direction changes only across a teardown of the channel.    *)
(***************************************************************************)
C1_Refused ==
    (call'.op = "setup" /\ OneChannel(call') /\ _mode # NoMode
        /\ HasKey(_exports, call'.channels[1]))
    => /\ call'.result = "AlreadyConfigured"
       /\ trace' = <<>>
       /\ _exports' = _exports /\ kexported' = kexported

C1_Reconfigure ==
    /\ (call'.op = "setup" /\ OneChannel(call') /\ ~HasKey(_exports, call'.channels[1]))
        => /\ call'.result # "AlreadyConfigured"
           /\ call'.result = "ok" => HasKey(_exports', call'.channels[1])
    /\ \A c \in UsedChannels, a \in SetupArgs :
        (_mode = BOARD /\ ~HasKey(_exports, c))
        => LET S == setup(Running, <<c>>, a.direction, a.initial, NoFault)
           IN  Ok(S) /\ HasKey(S.exports, c) /\ DirOf(S.exports, c) = a.direction

C1_DirectionKept ==
    \A c \in Channels :
        (HasKey(_exports, c) /\ HasKey(_exports', c))
        => DirOf(_exports', c) = DirOf(_exports, c)

\* C1: on every step, a configured channel is refused, an unconfigured one is
\* not, and a record that stays keeps its direction
C1_ConfigureOnce == [][C1_Refused /\ C1_Reconfigure /\ C1_DirectionKept]_vars

\* a second setup of a configured channel has just been refused
C1_Witness ==
    /\ call.op = "setup" /\ call.result = "AlreadyConfigured"
    /\ OneChannel(call) /\ HasKey(_exports, call.channels[1])

(***************************************************************************)
(* C2.  In setup of one channel, an export that fails with EBUSY is        *)
(* followed by one unexport of the pin and one more export.  When the      *)
(* retried export succeeds, the direction is written next and, the write   *)
(* done, the Export Record exists with that direction; when the retried    *)
(* export fails, its error is the call's result and no record is created.  *)
(* Any other export failure propagates at once.  No setup makes more than  *)
(* two export attempts for a channel.                                      *)
(***************************************************************************)
C2_RetryOnce ==
    (call.op = "setup" /\ OneChannel(call)) =>
    LET c == call.channels[1]
        t == SysfsCalls(trace)
    IN  /\ \A p \in Pins : Len(ExportCalls(trace, p)) <= 2
        /\ (Len(t) >= 1 /\ t[1].errno # 0 /\ t[1].errno # EBUSY)
            => (Len(t) = 1 /\ call.result = "IOError" /\ ~HasKey(_exports, c))
        /\ (Len(t) >= 1 /\ t[1].op = "sysfs.export" /\ t[1].errno = EBUSY)
            => /\ Len(t) >= 2
               /\ t[2].op = "sysfs.unexport" /\ t[2].pin = t[1].pin
               /\ t[2].errno # 0
                    => (Len(t) = 2 /\ call.result # "ok" /\ ~HasKey(_exports, c))
               /\ t[2].errno = 0
                    => /\ Len(t) >= 3
                       /\ t[3].op = "sysfs.export" /\ t[3].pin = t[1].pin
                       /\ t[3].errno # 0
                            => /\ Len(t) = 3
                               /\ call.result =
                                    (IF t[3].errno = EBUSY THEN "ResourceBusy" ELSE "IOError")
                               /\ ~HasKey(_exports, c)
                       /\ t[3].errno = 0
                            => /\ Len(t) >= 4
                               /\ t[4].op = "sysfs.direction" /\ t[4].pin = t[1].pin
                               /\ t[4].errno = 0
                                    => (HasKey(_exports, c)
                                        /\ DirOf(_exports, c) = t[4].arg)

\* a busy export was recovered: export, unexport, export, direction
C2_Witness ==
    /\ call.op = "setup" /\ OneChannel(call) /\ call.result = "ok"
    /\ Len(ExportCalls(trace, BoardPin(call.channels[1]))) = 2
    /\ HasKey(_exports, call.channels[1])

(***************************************************************************)
(* C3.  cleanup(channel) of a channel without an Export Record raises      *)
(* NotConfigured and changes nothing.  For a configured channel it calls   *)
(* event.cleanup for the channel's kernel pin, then sysfs.unexport for     *)
(* that pin, and deletes the record last (only when the unexport did not   *)
(* fail); after it returns the pin has no Edge Watcher, is not exported    *)
(* and the channel has no record.  In every state, every Edge Watcher      *)
(* belongs to the kernel pin of a channel recorded as an input.            *)
(***************************************************************************)
C3_NoOrphan ==
    \A p \in DOMAIN watchers :
        \E c \in DOMAIN BoardMap :
            BoardMap[c] = p /\ HasKey(_exports, c) /\ DirOf(_exports, c) = DirIN

C3_NotConfigured ==
    (call'.op = "cleanup" /\ OneChannel(call') /\ ~HasKey(_exports, call'.channels[1]))
    => /\ call'.result = "NotConfigured"
       /\ trace' = <<>>
       /\ UNCHANGED <<_mode, _gpio_warnings, _exports, _pin_map_custom,
                      kexported, watchers>>

C3_Configured ==
    (call'.op = "cleanup" /\ OneChannel(call') /\ HasKey(_exports, call'.channels[1]))
    => LET c == call'.channels[1]
           p == BoardPin(c)
           t == trace'
       IN  IF _mode # BOARD
           THEN \* the translator refuses the scheme: nothing is torn down
                /\ call'.result = "AssertionError" /\ Len(t) = 1
                /\ UNCHANGED <<_exports, kexported, watchers>>
           ELSE
           /\ Len(t) >= 3
           /\ t[1].op = "get_gpio_pin"
           /\ t[2].op = "event.cleanup" /\ t[2].pin = p
           /\ t[3].op = "sysfs.unexport" /\ t[3].pin = p
           /\ Len(t) = 3
           /\ p \notin DOMAIN watchers'
           /\ HasKey(_exports', c) <=> t[3].errno # 0
           /\ call'.result = "ok" <=> t[3].errno = 0
           /\ call'.result = "ok" => p \notin kexported'

\* C3: on every step, teardown of one channel behaves as above and leaves no
\* Edge Watcher without an input record
C3_Teardown == [][C3_NotConfigured /\ C3_Configured /\ C3_NoOrphan']_vars

\* a channel with an armed Edge Watcher has just been torn down
C3_Witness ==
    /\ call.op = "cleanup" /\ call.result = "ok" /\ OneChannel(call)
    /\ Len(trace) = 3 /\ trace[2].op = "event.cleanup" /\ trace[2].arg = "removed"
    /\ ~HasKey(_exports, call.channels[1])

(***************************************************************************)
(* C4.  When cleanup() without an argument returns, the registry is        *)
(* empty, the kernel pin of every channel that had a record is unexported  *)
(* and has no Edge Watcher, warnings are enabled and no scheme is active:  *)
(* every setup that follows raises NotInitialized.                         *)
(***************************************************************************)
C4_FullTeardown ==
    [][(call'.op = "cleanup_all" /\ call'.result = "ok")
        => /\ _exports' = <<>>
           /\ \A i \in 1..Len(_exports) :
                /\ BoardPin(_exports[i].ch) \notin kexported'
                /\ BoardPin(_exports[i].ch) \notin DOMAIN watchers'
           /\ _gpio_warnings' = TRUE
           /\ _mode' = NoMode
           /\ \A chs \in ChannelArgs, a \in SetupArgs :
                setup(Running, chs, a.direction, a.initial, NoFault)'.err
                    = "NotInitialized"]_vars

\* a full teardown of two channels, one of them watched, with warnings off
C4_Witness ==
    /\ call.op = "cleanup_all" /\ call.result = "ok"
    /\ Len(SysfsCalls(trace)) = NumChannels
    /\ \E i \in 1..Len(trace) : trace[i].op = "event.cleanup" /\ trace[i].arg = "removed"
    /\ _gpio_warnings /\ _mode = NoMode /\ _exports = <<>>

(***************************************************************************)
(* C5.  setup while no scheme is active raises NotInitialized for every    *)
(* channel argument and direction, calls neither the translator nor sysfs, *)
(* and leaves the registry and the kernel as they were.                    *)
(***************************************************************************)
C5_NotInitialized ==
    [][(call'.op = "setup" /\ _mode = NoMode)
        => /\ call'.result = "NotInitialized"
           /\ trace' = <<>>
           /\ _exports' = _exports /\ kexported' = kexported]_vars

C5_Witness ==
    call.op = "setup" /\ call.result = "NotInitialized" /\ _mode = NoMode

(***************************************************************************)
(* C6.  wait_for_edge, add_event_detect, remove_event_detect,              *)
(* add_event_callback and event_detected raise NotConfigured for a channel *)
(* without an Export Record and WrongDirection for a channel recorded as   *)
(* an output, and make no call at all in either case; every call they make *)
(* into OPi.event is for the kernel pin of the channel, which is recorded  *)
(* as an input.                                                            *)
(***************************************************************************)
EdgeFunctions ==
    {"wait_for_edge", "add_event_detect", "remove_event_detect",
     "add_event_callback", "event_detected"}
EventCalls(t) == SelectSeq(t, LAMBDA e : e.op \in
    {"event.blocking_wait_for_edge", "event.add_edge_detect",
     "event.remove_edge_detect", "event.add_edge_callback", "event.edge_detected"})

\* C6: the five edge functions are guarded, and OPi.event is only called for
\* the kernel pin of a channel recorded as an input
C6_Guarded ==
    /\ call.op \in EdgeFunctions =>
        LET c == call.channels[1]
        IN  /\ ~HasKey(_exports, c)
                => (call.result = "NotConfigured" /\ trace = <<>>)
            /\ (HasKey(_exports, c) /\ DirOf(_exports, c) = DirOUT)
                => (call.result = "WrongDirection" /\ trace = <<>>)
            /\ \A i \in 1..Len(EventCalls(trace)) :
                /\ HasKey(_exports, c) /\ DirOf(_exports, c) = DirIN
                /\ EventCalls(trace)[i].pin = BoardPin(c)
    /\ call.op \notin EdgeFunctions \cup {"cleanup", "cleanup_all"}
        => EventCalls(trace) = <<>>

\* an edge function has just been refused on an output channel
C6_Witness ==
    /\ call.op \in EdgeFunctions /\ call.result = "WrongDirection"
    /\ DirOf(_exports, call.channels[1]) = DirOUT
    /\ DOMAIN watchers # {}

\* the sysfs calls of a handler are first, then second, as far as it got
WriteOrder(t, first, second) ==
    /\ Len(t) >= 1 /\ t[1].op = first
    /\ Len(t) >= 2 => (Len(t) = 2 /\ t[2].op = second)

(***************************************************************************)
(* C7 as claimed: change_frequency writes the period first when the new    *)
(* period is shorter (the frequency increases), and the duty cycle first   *)
(* when the new period is longer (the frequency decreases).                *)
(***************************************************************************)
C7_AsClaimed ==
    [][pcall'.op = "change_frequency" =>
        LET new == PeriodOf(pcall'.arg)
            old == PeriodOf(pwm.frequency)
        IN  /\ new < old => WriteOrder(ptrace', "PWM_Period", "PWM_Duty_Cycle")
            /\ new > old => WriteOrder(ptrace', "PWM_Duty_Cycle", "PWM_Period")]_vars

(***************************************************************************)
(* C7 as the code has it: change_frequency writes the period first, then   *)
(* the duty cycle, when the new period is longer (the frequency            *)
(* decreases); it writes the duty cycle first, then the period, when the   *)
(* new period is shorter or the same (the frequency increases or stays).   *)
(* Both writes are made when neither fails.                                *)
(***************************************************************************)
C7_WriteOrder ==
    [][pcall'.op = "change_frequency" =>
        LET new == PeriodOf(pcall'.arg)
            old == PeriodOf(pwm.frequency)
        IN  /\ new > old => WriteOrder(ptrace', "PWM_Period", "PWM_Duty_Cycle")
            /\ new <= old => WriteOrder(ptrace', "PWM_Duty_Cycle", "PWM_Period")
            /\ pcall'.result = "ok" => Len(ptrace') = 2]_vars

\* the frequency was raised: the duty cycle was written under the old,
\* longer period, and the new, shorter period after it
C7_Witness ==
    /\ pcall.op = "change_frequency" /\ pcall.result = "ok"
    /\ Len(ptrace) = 2
    /\ ptrace[1].op = "PWM_Duty_Cycle" /\ ptrace[2].op = "PWM_Period"
    /\ ptrace[2].val < ptrace[1].period
    /\ ptrace[1].duty > 0

\* the sysfs rule for PWM: period >= duty cycle, both in nanoseconds
PeriodCoversDuty(k) == k.period >= k.duty

(***************************************************************************)
(* C8.  For a PWM object with a duty-cycle percentage in [0,100]: if the   *)
(* active period is at least the active duty cycle before                  *)
(* change_frequency, it is so after each write change_frequency makes.     *)
(***************************************************************************)
C8_PeriodCoversDuty ==
    [][(pcall'.op = "change_frequency"
            /\ pwm.duty_cycle_percent \in 0..100
            /\ PeriodCoversDuty(kpwm))
        => \A i \in 1..Len(ptrace') : PeriodCoversDuty(ptrace'[i])]_vars

(***************************************************************************)
(* C9.  When the PWM constructor returns without raising, also after a     *)
(* busy export recovered by an unexport and a second export, the pair is   *)
(* exported, has the polarity asked for, is enabled, and its period is     *)
(* that of the initial frequency.                                          *)
(***************************************************************************)
C9_ConstructedEnabled ==
    (pcall.op = "__init__" /\ pcall.result = "ok")
    => /\ kpwm.exported
       /\ kpwm.inverted = pwm.invert_polarity
       /\ kpwm.enabled
       /\ kpwm.period = PeriodOf(pwm.frequency)

(***************************************************************************)
(* C10.  Every polarity write is made while the output is disabled:        *)
(* pwm_polarity calls disable, polarity, enable in that order, and the     *)
(* constructor writes the polarity before it enables the output.           *)
(***************************************************************************)
C10_PolarityWhileDisabled ==
    /\ \A i \in 1..Len(ptrace) : ptrace[i].op = "PWM_Polarity" => ~ptrace[i].en
    /\ pcall.op = "pwm_polarity" =>
        /\ Len(ptrace) >= 1 /\ ptrace[1].op = "PWM_Disable"
        /\ Len(ptrace) >= 2 => ptrace[2].op = "PWM_Polarity"
        /\ Len(ptrace) >= 3 => (ptrace[3].op = "PWM_Enable" /\ Len(ptrace) = 3)
        /\ pcall.result = "ok" => Len(ptrace) = 3
    /\ pcall.op = "__init__" =>
        \A i, j \in 1..Len(ptrace) :
            (ptrace[i].op = "PWM_Polarity" /\ ptrace[j].op = "PWM_Enable") => i < j

\* the polarity of an enabled output has just been inverted
C10_Witness ==
    /\ pcall.op = "pwm_polarity" /\ pcall.result = "ok"
    /\ Len(ptrace) = 3 /\ ptrace[1].en /\ ~ptrace[2].en
    /\ kpwm.enabled

(***************************************************************************)
(* C11.  duty_cycle(p) with 0 <= p <= 100 (0 and 100 included) is not      *)
(* refused: it stores p in the object and makes one PWM_Duty_Cycle_Percent *)
(* write of p, and succeeds when that write does.  With p < 0 or p > 100   *)
(* it raises OutOfRange, makes no write and leaves the object's percentage *)
(* and the kernel state as they were.                                      *)
(***************************************************************************)
C11_DutyCycleRange ==
    [][pcall'.op = "duty_cycle" =>
        LET p == pcall'.arg
        IN  /\ (0 <= p /\ p <= 100)
                => /\ pcall'.result # "OutOfRange"
                   /\ pwm'.duty_cycle_percent = p
                   /\ Len(ptrace') = 1
                   /\ ptrace'[1].op = "PWM_Duty_Cycle_Percent" /\ ptrace'[1].val = p
                   /\ pcall'.result = "ok" <=> ptrace'[1].errno = 0
                   /\ pcall'.result = "ok" => kpwm'.duty = DutyOf(p, kpwm.period)
            /\ (p < 0 \/ p > 100)
                => /\ pcall'.result = "OutOfRange"
                   /\ ptrace' = <<>>
                   /\ pwm' = pwm /\ kpwm' = kpwm]_vars

\* a percentage just above the range has been refused on a running output
C11_Witness ==
    /\ pcall.op = "duty_cycle" /\ pcall.arg = 101 /\ pcall.result = "OutOfRange"
    /\ ptrace = <<>>
    /\ kpwm.exported /\ kpwm.duty > 0 /\ pwm.duty_cycle_percent = 100

(***************************************************************************)
(* C16.  Every pwm_polarity() that returns flips the polarity of the       *)
(* output: the polarity after the call is the opposite of the polarity     *)
(* just before it, so that two calls in a row restore the polarity.        *)
(***************************************************************************)
C16_PolarityFlips ==
    [][(pcall'.op = "pwm_polarity" /\ pcall'.result = "ok")
        => kpwm'.inverted = ~kpwm.inverted]_vars

(***************************************************************************)
(* C20.  After stop_pwm() has set the active duty cycle to zero, a         *)
(* change_frequency or a pwm_polarity leaves the active duty cycle zero.   *)
(***************************************************************************)
C20_StoppedStaysZero ==
    [][(pcall.op = "stop_pwm" /\ pcall.result = "ok" /\ kpwm.duty = 0
            /\ pcall'.op \in {"change_frequency", "pwm_polarity"})
        => kpwm'.duty = 0]_vars

\* the sysfs.output calls of a handler, in order
OutputCalls(t) == SelectSeq(t, LAMBDA e : e.op = "sysfs.output")

(***************************************************************************)
(* C12.  output on a list of channels that returns has made one            *)
(* sysfs.output per listed channel, in order, each for the kernel pin of   *)
(* its channel, which is recorded as an output; with a single value every  *)
(* channel is written that value, and with a list of values the i-th       *)
(* channel is written the i-th value.                                      *)
(***************************************************************************)
C12_ListWrite ==
    (call.op = "output" /\ Len(call.channels) >= 2 /\ call.result = "ok")
    => LET w == OutputCalls(trace)
       IN  /\ Len(w) = Len(call.channels)
           /\ \A i \in 1..Len(w) :
                /\ w[i].pin = BoardPin(call.channels[i])
                /\ HasKey(_exports, call.channels[i])
                /\ DirOf(_exports, call.channels[i]) = DirOUT
                /\ w[i].arg = IF call.state.list THEN Single(call.state.v[i])
                                                 ELSE call.state

\* the calls a handler made into sysfs and the event subsystem
PinCalls(t) == SelectSeq(t, LAMBDA e : e.op # "get_gpio_pin")

(***************************************************************************)
(* C13.  setmode given a mapping M makes M the custom map and CUSTOM the   *)
(* active scheme; while it is, for every channel c of M without a record,  *)
(* setup(c), output(c), input(c) and cleanup(c) in turn all succeed (no    *)
(* I/O error occurring), the setup exports kernel pin M[c], and every call *)
(* of the four into sysfs and the event subsystem is for pin M[c].         *)
(***************************************************************************)
C13_CustomMapping ==
    /\ LET S == setmode(Running, SampleCustomMap, TRUE)
       IN  Ok(S) /\ S.mode = CUSTOM /\ S.custom = SampleCustomMap
    /\ \A c \in DOMAIN _pin_map_custom :
        (_mode = CUSTOM /\ ~HasKey(_exports, c))
        => LET S == setup(Running, <<c>>, DirOUT, "None", NoFault)
               W == output(S, <<c>>, Single("1"), NoFault)
               R == input(W, c, "1", NoFault)
               T == cleanup_channel(R, c, NoFault)
           IN  /\ Ok(S) /\ HasKey(S.exports, c)
               /\ Len(ExportCalls(S.trace, _pin_map_custom[c])) >= 1
               /\ Ok(W) /\ Ok(R) /\ Ok(T)
               /\ \A i \in 1..Len(PinCalls(T.trace)) :
                    PinCalls(T.trace)[i].pin = _pin_map_custom[c]

\* no call into sysfs or the event subsystem raised
NoErrno(t) == \A i \in 1..Len(t) : t[i].errno = 0

(***************************************************************************)
(* C15.  input(channel) raises NotConfigured on a channel without an       *)
(* Export Record and is refused on no configured channel, input or output: *)
(* it reads the channel's pin and returns the value (the translation and   *)
(* the read not failing).  output(channel, v) raises NotConfigured on a    *)
(* channel without a record and WrongDirection on one recorded as an       *)
(* input, and writes v to the pin of one recorded as an output.  A refused *)
(* call makes no call at all, and neither function changes the registry.   *)
(***************************************************************************)
C15_ReadWriteGuards ==
    [][(call'.op \in {"input", "output"} /\ OneChannel(call'))
        => LET c == call'.channels[1]
               configured == HasKey(_exports, c)
               refused == call'.result \in {"NotConfigured", "WrongDirection"}
               done == _mode = BOARD /\ NoErrno(trace')
           IN  /\ _exports' = _exports /\ kexported' = kexported
               /\ refused => trace' = <<>>
               /\ ~configured => call'.result = "NotConfigured"
               /\ call'.op = "input" =>
                    /\ configured => ~refused
                    /\ (configured /\ done)
                        => /\ call'.result = "ok" /\ call'.ret \in Levels
                           /\ Len(PinCalls(trace')) = 1
                           /\ PinCalls(trace')[1].op = "sysfs.input"
                           /\ PinCalls(trace')[1].pin = BoardPin(c)
               /\ call'.op = "output" =>
                    /\ (configured /\ DirOf(_exports, c) = DirIN)
                        => call'.result = "WrongDirection"
                    /\ (configured /\ DirOf(_exports, c) = DirOUT) => ~refused
                    /\ call'.result = "ok"
                        => (configured /\ DirOf(_exports, c) = DirOUT)
                    /\ (configured /\ DirOf(_exports, c) = DirOUT /\ done)
                        => /\ call'.result = "ok"
                           /\ Len(PinCalls(trace')) = 1
                           /\ PinCalls(trace')[1].op = "sysfs.output"
                           /\ PinCalls(trace')[1].pin = BoardPin(c)
                           /\ PinCalls(trace')[1].arg = call'.state]_vars

\* a write to a channel recorded as an input has just been refused, after an
\* output channel was read
C15_Witness ==
    /\ call.op = "output" /\ OneChannel(call) /\ call.result = "WrongDirection"
    /\ trace = <<>>
    /\ DirOf(_exports, call.channels[1]) = DirIN
    /\ \E i \in 1..Len(_exports) : _exports[i].dir = DirOUT

\* the sysfs.unexport calls of a handler that did not raise
Unexports(t) == SelectSeq(t, LAMBDA e : e.op = "sysfs.unexport" /\ e.errno = 0)

(***************************************************************************)
(* C17.  In every state, no scheme active means no Export Records.  The    *)
(* scheme is cleared only by a cleanup() without argument that returns,    *)
(* after it has unexported and deleted every record; a setmode that        *)
(* returns leaves one of the four schemes active, and one that raises      *)
(* leaves the scheme as it was.                                            *)
(***************************************************************************)
C17_NoSchemeNoRecords ==
    [][/\ _mode' = NoMode => _exports' = <<>>
       /\ (_mode # NoMode /\ _mode' = NoMode)
            => /\ call'.op = "cleanup_all" /\ call'.result = "ok"
               /\ Len(Unexports(trace')) = Len(_exports)
               /\ _exports' = <<>>
       /\ call'.op = "setmode"
            => /\ call'.result = "ok" => _mode' \in {BCM, BOARD, SUNXI, CUSTOM}
               /\ call'.result # "ok" => _mode' = _mode]_vars

\* setmode(None) has just been refused while channels are configured
C17_Witness ==
    /\ call.op = "setmode" /\ call.result = "AssertionError"
    /\ _mode # NoMode /\ _exports # <<>>

\* the handler exported a pin and did not unexport it afterwards
LeftExported(t) ==
    \E i \in 1..Len(t) :
        /\ t[i].op = "sysfs.export" /\ t[i].errno = 0
        /\ \A j \in (i+1)..Len(t) :
            ~(t[j].op = "sysfs.unexport" /\ t[j].pin = t[i].pin /\ t[j].errno = 0)

(***************************************************************************)
(* C18.  A setup of one channel without an Export Record that raises, at   *)
(* whatever step, leaves the channel without a record and leaves no pin    *)
(* exported that the call itself exported.                                 *)
(***************************************************************************)
C18_FailedSetupLeavesNothing ==
    [][(call'.op = "setup" /\ OneChannel(call')
            /\ ~HasKey(_exports, call'.channels[1])
            /\ call'.result # "ok")
        => /\ ~HasKey(_exports', call'.channels[1])
           /\ ~LeftExported(trace')]_vars

(***************************************************************************)
(* C19.  Whatever setmode calls come between, the kernel pin a teardown    *)
(* unexports, and whose Edge Watcher it removes, is the pin the setup of   *)
(* that channel exported: a setup that creates the record of a channel     *)
(* exports the channel's pin of the board map and touches no other pin,    *)
(* and every call a teardown makes is for the board-map pin of a channel   *)
(* it was asked to tear down and that had a record.                        *)
(***************************************************************************)
C19_SamePin ==
    [][/\ (call'.op = "setup" /\ OneChannel(call')
            /\ ~HasKey(_exports, call'.channels[1])
            /\ HasKey(_exports', call'.channels[1]))
          => /\ \E i \in 1..Len(trace') :
                    /\ trace'[i].op = "sysfs.export" /\ trace'[i].errno = 0
                    /\ trace'[i].pin = BoardPin(call'.channels[1])
             /\ \A i \in 1..Len(PinCalls(trace')) :
                    PinCalls(trace')[i].pin = BoardPin(call'.channels[1])
       /\ call'.op \in {"cleanup", "cleanup_all"}
          => \A i \in 1..Len(PinCalls(trace')) :
                \E ch \in UsedChannels :
                    /\ HasKey(_exports, ch)
                    /\ call'.op = "cleanup"
                        => \E k \in 1..Len(call'.channels) : call'.channels[k] = ch
                    /\ PinCalls(trace')[i].pin = BoardPin(ch)
       /\ (call'.op = "cleanup" /\ OneChannel(call') /\ call'.result = "ok")
          => /\ Len(Unexports(trace')) = 1
             /\ Unexports(trace')[1].pin = BoardPin(call'.channels[1])]_vars

\* a teardown has just been refused because the scheme was changed to a
\* mapping after the channel was set up: the record and the pin are kept
C19_Witness ==
    /\ call.op = "cleanup" /\ OneChannel(call) /\ call.result = "AssertionError"
    /\ _mode = CUSTOM /\ call.channels[1] \in DOMAIN _pin_map_custom
    /\ HasKey(_exports, call.channels[1])
    /\ BoardPin(call.channels[1]) \in kexported
    /\ PinCalls(trace) = <<>>

\* the k-th callback registered for a channel, as the application gave it
Bound(cb, channel) == [cb |-> cb, channel |-> channel]

(***************************************************************************)
(* C14.  add_event_detect without a callback creates the Edge Watcher with *)
(* an empty callback list, and with a callback creates it with that one    *)
(* callback; add_event_callback appends its callback after those already   *)
(* registered; each callback is kept with the channel it was registered    *)
(* for.  A transition on a watched pin runs every callback of the pin's    *)
(* watcher once, in the order of the list, each with its channel (whose    *)
(* kernel pin is the watched pin), and runs nothing else.                  *)
(***************************************************************************)
C14_Registered ==
    /\ \A c \in UsedChannels, t \in Triggers, cb \in CallbackArgs :
        LET S == add_event_detect(Running, c, t, cb)
        IN  Ok(S) => S.watchers[BoardPin(c)].callbacks =
                        (IF cb = "None" THEN <<>> ELSE <<Bound(cb, c)>>)
    /\ \A c \in UsedChannels, cb \in MoreCallbacks :
        LET S == add_event_callback(Running, c, cb)
        IN  Ok(S) => S.watchers[BoardPin(c)].callbacks =
                        Append(watchers[BoardPin(c)].callbacks, Bound(cb, c))

C14_Dispatched ==
    call'.op = "edge"
    => \E pin \in DOMAIN watchers :
        LET cbs == watchers[pin].callbacks
        IN  /\ watchers' = [watchers EXCEPT ![pin].detected = TRUE]
            /\ Len(trace') = Len(cbs)
            /\ \A i \in 1..Len(cbs) :
                /\ trace'[i].op = "callback"
                /\ trace'[i].arg = cbs[i].cb
                /\ trace'[i].pin = cbs[i].channel
                /\ cbs[i].channel \in UsedChannels
                /\ BoardPin(cbs[i].channel) = pin

\* C14: in every state the two registrations do as said, and on every step a
\* transition runs the callbacks of its watcher in the order of the list
C14_CallbacksInOrder == []C14_Registered /\ [][C14_Dispatched]_vars

\* a transition has just run two callbacks, g registered before f
C14_Witness ==
    /\ call.op = "edge" /\ Len(trace) = 2
    /\ trace[1].arg = "g" /\ trace[2].arg = "f"
    /\ trace[1].pin \in UsedChannels /\ trace[2].pin = trace[1].pin
    /\ BoardPin(trace[1].pin) \in DOMAIN watchers

====
